---------------------------- MODULE Spec2Model ----------------------------
(***************************************************************************)
(* Model of the /judge WebSocket endpoint of api/src/api/v2.js.            *)
(*                                                                         *)
(* One session is modelled.  Every inbound frame starts an instance of the *)
(* async 'message' listener; an instance runs synchronously up to its next *)
(* `await`, where it is suspended and any other event of the session (a    *)
(* further frame, the socket's 'close' event, the init timer, the          *)
(* resumption of another suspended instance) may run.                      *)
(*                                                                         *)
(* The Job class (api/src/job.js) and the runtime registry are not part of *)
(* the sources at hand.  The outcome of every Job call (return value or    *)
(* exception, and the moment it settles) is an input chosen with \E.       *)
(*                                                                         *)
(* The socket follows the ws library: ws.close acts on an OPEN socket only *)
(* and leaves it CLOSING until the 'close' event; frames still arrive      *)
(* while it is CLOSING; ws.send on a socket that is not OPEN drops the     *)
(* message without throwing.                                               *)
(*                                                                         *)
(* What the session has done is recorded per listener instance (the        *)
(* messages it passed to ws.send, the code it passed to ws.close) and per  *)
(* Job (the number of calls of each method).                               *)
(***************************************************************************)
EXTENDS Integers, Sequences, FiniteSets, TLC

(***************************************************************************)
(* Bounds of the model.                                                    *)
(***************************************************************************)
\* number of inbound frames of the session
MaxMsgs == 3
\* number of `init` frames among them
MaxInits == 2
\* largest wall time / batch total time a Job call reports
MaxWall == 1
\* most messages the event bus handlers of /connect send for one execute
MaxEvents == 1

(***************************************************************************)
(* JavaScript values, as far as get_job and the handlers tell them apart.  *)
(***************************************************************************)
Undef == [t |-> "undefined", s |-> "", n |-> 0]
Null == [t |-> "null", s |-> "", n |-> 0]
Str(x) == [t |-> "string", s |-> x, n |-> 0]
Num(k) == [t |-> "number", s |-> "", n |-> k]

\* ToBoolean: undefined, null, "" and 0 are falsy
Truthy(v) ==
    CASE v.t = "undefined" -> FALSE
      [] v.t = "null" -> FALSE
      [] v.t = "string" -> v.s # ""
      [] v.t = "number" -> v.n # 0
      [] OTHER -> TRUE

\* a || b
JsOr(a, b) == IF Truthy(a) THEN a ELSE b

\* a ?? b
Nullish(a, b) == IF a.t \in {"undefined", "null"} THEN b ELSE a

(***************************************************************************)
(* Runtime registry (api/src/runtime.js): installed runtimes with their    *)
(* configured limits.  A configured limit <= 0 means "unbounded".          *)
(***************************************************************************)
Constraints == <<"memory_limit", "timeout", "cpu_time">>
StageOrder == <<"compile", "run">>

InstalledRuntimes ==
    { [language |-> "python", version |-> "3.10.0", compiled |-> FALSE,
       timeouts |-> [compile |-> 3, run |-> 2],
       cpu_times |-> [compile |-> 3, run |-> 2],
       memory_limits |-> [compile |-> -1, run |-> -1]],
      [language |-> "file", version |-> "0.0.1", compiled |-> FALSE,
       timeouts |-> [compile |-> 3, run |-> 2],
       cpu_times |-> [compile |-> 3, run |-> 2],
       memory_limits |-> [compile |-> -1, run |-> -1]] }

NoRuntime == [language |-> "", version |-> "", compiled |-> FALSE,
              timeouts |-> [compile |-> 0, run |-> 0],
              cpu_times |-> [compile |-> 0, run |-> 0],
              memory_limits |-> [compile |-> 0, run |-> 0]]

get_latest_runtime_matching_language_version(language, version) ==
    LET hits == { rt \in InstalledRuntimes :
                    /\ rt.language = language
                    /\ version \in {"*", rt.version} }
    IN  IF hits = {} THEN NoRuntime ELSE CHOOSE rt \in hits : TRUE

\* rt[`${constraint}s`][type]
ConfiguredLimit(rt, constraint, type) ==
    CASE constraint = "memory_limit" -> rt.memory_limits[type]
      [] constraint = "timeout" -> rt.timeouts[type]
      [] constraint = "cpu_time" -> rt.cpu_times[type]

(***************************************************************************)
(* get_job(body): the validation of an `init` body and the construction of *)
(* the Job.  A body is                                                     *)
(*   [language, version : JS value,                                        *)
(*    files : [t : "undefined" | "array", items : Seq(file)],              *)
(*    limits : [compile_memory_limit, ... -> JS value]]                    *)
(* and a file is [content : JS value, encoding : JS value].                *)
(***************************************************************************)
LimitNames == {"compile_memory_limit", "run_memory_limit", "compile_timeout",
               "run_timeout", "compile_cpu_time", "run_cpu_time"}

ConstraintName(type, constraint) ==
    CASE type = "compile" /\ constraint = "memory_limit" -> "compile_memory_limit"
      [] type = "run" /\ constraint = "memory_limit" -> "run_memory_limit"
      [] type = "compile" /\ constraint = "timeout" -> "compile_timeout"
      [] type = "run" /\ constraint = "timeout" -> "run_timeout"
      [] type = "compile" /\ constraint = "cpu_time" -> "compile_cpu_time"
      [] type = "run" /\ constraint = "cpu_time" -> "run_cpu_time"

\* the verdict of one pass of the inner loop body (lines 72-95):
\* "continue" or the rejection it returns
CheckConstraint(body, rt, constraint, type) ==
    LET constraint_value == body.limits[ConstraintName(type, constraint)]
        configured_limit == ConfiguredLimit(rt, constraint, type)
    IN  IF ~Truthy(constraint_value) THEN "continue"
        ELSE IF constraint_value.t # "number" THEN "must be a number"
        ELSE IF configured_limit <= 0 THEN "continue"
        ELSE IF constraint_value.n > configured_limit THEN "cannot exceed the configured limit"
        ELSE IF constraint_value.n < 0 THEN "must be non-negative"
        ELSE "continue"

\* the two nested loops of lines 70-97, in iteration order: the first
\* rejection met, or "continue" when there is none
CheckConstraints(body, rt) ==
    LET order == << <<1, 1>>, <<1, 2>>, <<2, 1>>, <<2, 2>>, <<3, 1>>, <<3, 2>> >>
        verdict(i) == CheckConstraint(body, rt, Constraints[order[i][1]],
                                      StageOrder[order[i][2]])
        bad == { i \in 1..6 : verdict(i) # "continue" }
    IN  IF bad = {} THEN "continue"
        ELSE verdict(CHOOSE i \in bad : \A j \in bad : i <= j)

\* the Job that lines 99-118 construct
NewJob(body, rt) ==
    [runtime |-> rt,
     timeouts |-> [run |-> Nullish(body.limits["run_timeout"], Num(rt.timeouts.run)),
                   compile |-> Nullish(body.limits["compile_timeout"], Num(rt.timeouts.compile))],
     cpu_times |-> [run |-> Nullish(body.limits["run_cpu_time"], Num(rt.cpu_times.run)),
                    compile |-> Nullish(body.limits["compile_cpu_time"], Num(rt.cpu_times.compile))],
     memory_limits |-> [run |-> Nullish(body.limits["run_memory_limit"], Num(rt.memory_limits.run)),
                        compile |-> Nullish(body.limits["compile_memory_limit"], Num(rt.memory_limits.compile))]]

\* the message get_job rejects with, or "" when it resolves
get_job_error(body) ==
    LET language == body.language
        version == body.version
        files == body.files
        rt == get_latest_runtime_matching_language_version(language.s, version.s)
    IN  IF ~Truthy(language) \/ language.t # "string"
          THEN "language is required as a string"
        ELSE IF ~Truthy(version) \/ version.t # "string"
          THEN "version is required as a string"
        ELSE IF files.t # "array"
          THEN "files is required as an array"
        ELSE IF \E i \in 1..Len(files.items) : files.items[i].content.t # "string"
          THEN "files[i].content is required as a string"
        ELSE IF rt = NoRuntime
          THEN "runtime is unknown"
        ELSE IF /\ rt.language # "file"
                /\ ~\E i \in 1..Len(files.items) :
                      \/ ~Truthy(files.items[i].encoding)
                      \/ files.items[i].encoding = Str("utf8")
          THEN "files must include at least one utf8 encoded file"
        ELSE IF CheckConstraints(body, rt) # "continue"
          THEN CheckConstraints(body, rt)
        ELSE ""

get_job(body) ==
    IF get_job_error(body) = ""
      THEN [ok |-> TRUE, message |-> "",
            job |-> NewJob(body, get_latest_runtime_matching_language_version(
                                     body.language.s, body.version.s))]
      ELSE [ok |-> FALSE, message |-> get_job_error(body), job |-> NewJob(body, NoRuntime)]


(***************************************************************************)
(* Inbound frames.  A frame is                                             *)
(*   [type, body, test_id, test_cases, overrides]                          *)
(* with type "#invalid" for a frame JSON.parse throws on; overrides are    *)
(* the fields timeout, cpu_time and memory_limit of a run_test/run_batch.  *)
(***************************************************************************)
NoLimits == [x \in LimitNames |-> Undef]
NoFiles == [t |-> "array", items |-> << >>]
OneFile == [t |-> "array", items |-> << [content |-> Str("code"), encoding |-> Undef] >>]
NoCases == [t |-> "array", len |-> 0]
NoBody == [language |-> Undef, version |-> Undef, files |-> NoFiles, limits |-> NoLimits]

GoodBody == [language |-> Str("python"), version |-> Str("*"), files |-> OneFile,
             limits |-> NoLimits]
BadBody == [language |-> Str("cobol"), version |-> Str("*"), files |-> OneFile,
            limits |-> NoLimits]
InitBodies == {GoodBody, BadBody}

NoOverrides == [timeout |-> Undef, cpu_time |-> Undef, memory_limit |-> Undef]

FrameWith(type, body, test_id, test_cases, overrides) ==
    [type |-> type, body |-> body, test_id |-> test_id, test_cases |-> test_cases,
     overrides |-> overrides]

Frame(type, body, test_id, test_cases) ==
    FrameWith(type, body, test_id, test_cases, NoOverrides)

Frames ==
    { Frame("init", b, Undef, NoCases) : b \in InitBodies }
    \cup { Frame("run_test", NoBody, id, NoCases) : id \in {Undef, Num(0), Num(7), Str("a")} }
    \cup { Frame("run_batch", NoBody, Undef, [t |-> "array", len |-> n]) : n \in {0, 2} }
    \cup { Frame(ty, NoBody, Undef, NoCases) : ty \in {"close", "ping", "status", "#invalid"} }

(***************************************************************************)
(* State of one /judge session.                                            *)
(***************************************************************************)
VARIABLES
    ws,          \* ws.readyState: "OPEN", "CLOSING" or "CLOSED"
    closeCode,   \* code of the ws.close call that closed the socket, 0 if none
    job,         \* let job: index into jobs, 0 for null
    box,         \* let box: index of the job whose prime returned it, 0 for null
    testCount,   \* let testCount
    totalTime,   \* let totalTime
    isCompiled,  \* let isCompiled
    jobs,        \* the Job objects constructed by get_job, in order
    calls,       \* calls[j][method]: number of calls of the method on jobs[j]
    inbox,       \* the frames received so far; frame k runs listener instance k
    pc,          \* pc[k]: where listener instance k is suspended, or "done"
    pend,        \* pend[k]: the job the pending call of instance k was made on
    sent,        \* sent[k]: the messages instance k has passed to ws.send
    closed,      \* closed[k]: the code instance k (0: the timer) passed to ws.close
    closePc,     \* the 'close' listener: "idle", "cleanup" or "done"
    timerFired,  \* the 5 s init timer has run
    compileResult, \* compileResult[k]: const compileResult of listener instance k
    emitted      \* emitted[k]: the event instance k emitted on event_bus, "" if none

vars == <<ws, closeCode, job, box, testCount, totalTime, isCompiled, jobs, calls,
          inbox, pc, pend, sent, closed, closePc, timerFired, compileResult,
          emitted>>

locals == <<job, box, testCount, totalTime, isCompiled>>

Awaits == {"get_job", "prime", "compileOnly", "cleanup_compile", "cleanup_error",
           "runTest", "runBatched", "cleanup_close"}

Methods == {"prime", "compileOnly", "runTest", "runBatched", "execute", "cleanup"}

\* the stdout, stderr, error, test_id and time of a message that has none
NoData == [stdout |-> Undef, stderr |-> Undef, error |-> Undef, test_id |-> Undef,
           time |-> Undef]

\* sendMessage(type, data) by instance k: ws.send(JSON.stringify({type, ...data}))
sendMessageWith(s, k, type, v, w, text, data) ==
    [s EXCEPT ![k] = Append(@, [type |-> type, v |-> v, w |-> w, text |-> text,
                                data |-> data])]

sendMessage(s, k, type, v, w, text) == sendMessageWith(s, k, type, v, w, text, NoData)

\* the value of compileResult before job.compileOnly has returned
NoCompileResult ==
    [success |-> FALSE, record |-> FALSE, wall_time |-> Undef, stdout |-> Undef,
     stderr |-> Undef, message |-> Undef]

\* a `compiled` that ignores the compile record and always carries the defaults
CompiledMessageNoRecord(cr) ==
    [success |-> cr.success, time |-> Num(0), stdout |-> Str(""), stderr |-> Str(""),
     error |-> Null]

\* the data of `compiled` (lines 286-292): compileResult.compile?.x || default
CompiledMessage(cr) ==
    LET compile == [x \in {"wall_time", "stdout", "stderr", "message"} |->
                       IF cr.record THEN cr[x] ELSE Undef]
    IN  [success |-> cr.success,
         time |-> JsOr(compile["wall_time"], Num(0)),
         stdout |-> JsOr(compile["stdout"], Str("")),
         stderr |-> JsOr(compile["stderr"], Str("")),
         error |-> JsOr(compile["message"], Null)]

\* ws.close(code): closes an OPEN socket, does nothing otherwise
ReadyStateAfterClose == IF ws = "OPEN" THEN "CLOSING" ELSE ws
CloseCodeAfterClose(code) == IF ws = "OPEN" THEN code ELSE closeCode

\* the socket still hands frames to the 'message' listener: it is open, or
\* closing on a ws.close of the server; the client's close frame ends it
FramesDelivered == ws = "OPEN" \/ (ws = "CLOSING" /\ closeCode # 0)

\* a timer that can run between get_job and the assignment of its result
GetJobMayBePending == TRUE

\* no listener is between get_job and the assignment of its result
NoGetJobPending == \A k \in 1..MaxMsgs : pc[k] # "get_job"

\* a call of a Job method on jobs[j]
JobCall(c, method, j) == [c EXCEPT ![j][method] = @ + 1]

\* msg.test_id || fallback
TestId(test_id, fallback) == JsOr(test_id, Num(fallback))

\* the data of a `result` or of the `error` of a run_test: its test_id
TestIdData(test_id, fallback) == [NoData EXCEPT !.test_id = TestId(test_id, fallback)]

\* the wall_time of what job.runTest returns and the total_time of what
\* job.runBatched returns: absent, null, 0 or a positive number
RunTimes == {Undef, Null, Num(0), Num(MaxWall)}

\* totalTime += testResult.wall_time || 0, totalTime = batchResult.total_time || 0
\* (lines 327, 375): the number the reported time counts for
TimeOrZero(time) == JsOr(time, Num(0)).n

\* the test_id and time of `result` (lines 329-340), the total_time of
\* `batch_result` (lines 377-383): the time goes out as it was reported
ResultData(test_id, fallback, time) == [TestIdData(test_id, fallback) EXCEPT !.time = time]
BatchResultData(total_time) == [NoData EXCEPT !.time = total_time]

Init ==
    /\ ws = "OPEN"
    /\ closeCode = 0
    /\ job = 0
    /\ box = 0
    /\ testCount = 0
    /\ totalTime = 0
    /\ isCompiled = FALSE
    /\ jobs = << >>
    /\ calls = << >>
    /\ inbox = << >>
    /\ pc = [k \in 1..MaxMsgs |-> "idle"]
    /\ pend = [k \in 1..MaxMsgs |-> 0]
    /\ sent = [k \in 1..MaxMsgs |-> << >>]
    /\ closed = [k \in 0..MaxMsgs |-> 0]
    /\ closePc = "idle"
    /\ timerFired = FALSE
    /\ compileResult = [k \in 1..MaxMsgs |-> NoCompileResult]
    /\ emitted = [k \in 1..MaxMsgs |-> ""]

(***************************************************************************)
(* Building blocks of the 'message' listener.                              *)
(***************************************************************************)
\* listener instance k has run to its end
Finish(k) == pc' = [pc EXCEPT ![k] = "done"]

\* listener instance k is suspended at `await` a, on a call made on jobs[j]
Suspend(k, a, j) ==
    /\ pc' = [pc EXCEPT ![k] = a]
    /\ pend' = [pend EXCEPT ![k] = j]

\* ws.close(code) ends the instance
CloseAndFinish(k, code) ==
    /\ closed' = [closed EXCEPT ![k] = code]
    /\ ws' = ReadyStateAfterClose
    /\ closeCode' = CloseCodeAfterClose(code)
    /\ Finish(k)
    /\ UNCHANGED pend

\* the outer catch (lines 404-407)
OuterCatch(k, message) ==
    /\ sent' = sendMessage(sent, k, "error", -1, 0, message)
    /\ CloseAndFinish(k, 4002)

\* the catch of the init try block (lines 299-304), up to its await
InitCatch(k, message) ==
    /\ sent' = sendMessage(sent, k, "error", -1, 0, message)
    /\ IF job # 0
         THEN /\ calls' = JobCall(calls, "cleanup", job)
              /\ Suspend(k, "cleanup_error", job)
              /\ UNCHANGED <<ws, closeCode, closed>>
         ELSE /\ CloseAndFinish(k, 4002)
              /\ UNCHANGED calls

(***************************************************************************)
(* ws.on('message'): frame m arrives and listener instance k runs up to    *)
(* its first await.                                                        *)
(***************************************************************************)
\* JSON.parse throws (line 254)
MsgInvalid(k) ==
    /\ OuterCatch(k, "Unexpected token")
    /\ UNCHANGED <<locals, jobs, calls>>

\* MsgInit answering a second init with the code of the other guards, 4003
MsgInitNotInitialized(k, m) ==
    IF job # 0
      THEN /\ CloseAndFinish(k, 4003)
           /\ UNCHANGED <<locals, jobs, calls, sent>>
      ELSE LET r == get_job(m.body)
           IN  /\ jobs' = IF r.ok THEN Append(jobs, r.job) ELSE jobs
               /\ calls' = IF r.ok THEN Append(calls, [x \in Methods |-> 0]) ELSE calls
               /\ Suspend(k, "get_job", IF r.ok THEN Len(jobs) + 1 ELSE 0)
               /\ UNCHANGED <<locals, ws, closeCode, sent, closed>>

\* case 'init' (lines 257-265): get_job runs its executor, constructing the
\* Job when the body is valid, and the instance awaits the promise
MsgInit(k, m) ==
    IF job # 0
      THEN /\ CloseAndFinish(k, 4000)
           /\ UNCHANGED <<locals, jobs, calls, sent>>
      ELSE LET r == get_job(m.body)
           IN  /\ jobs' = IF r.ok THEN Append(jobs, r.job) ELSE jobs
               /\ calls' = IF r.ok THEN Append(calls, [x \in Methods |-> 0]) ELSE calls
               /\ Suspend(k, "get_job", IF r.ok THEN Len(jobs) + 1 ELSE 0)
               /\ UNCHANGED <<locals, ws, closeCode, sent, closed>>

\* the two guards run_test and run_batch share (lines 308-316, 351-359)
NotReady(k) ==
    IF job = 0
      THEN /\ CloseAndFinish(k, 4003)
           /\ UNCHANGED sent
      ELSE /\ sent' = sendMessage(sent, k, "error", -1, 0, "Code did not compile successfully")
           /\ Finish(k)
           /\ UNCHANGED <<ws, closeCode, closed, pend>>

\* case 'run_test' (lines 307-324)
MsgRunTest(k, m) ==
    /\ UNCHANGED <<locals, jobs>>
    /\ IF job = 0 \/ ~isCompiled
         THEN /\ NotReady(k)
              /\ UNCHANGED calls
         ELSE /\ calls' = JobCall(calls, "runTest", job)
              /\ Suspend(k, "runTest", job)
              /\ UNCHANGED <<ws, closeCode, sent, closed>>

\* case 'run_batch' without the test_cases check of lines 361-364
MsgRunBatchUnchecked(k, m) ==
    /\ UNCHANGED <<locals, jobs>>
    /\ IF job = 0 \/ ~isCompiled
         THEN /\ NotReady(k)
              /\ UNCHANGED calls
         ELSE /\ calls' = JobCall(calls, "runBatched", job)
              /\ Suspend(k, "runBatched", job)
              /\ UNCHANGED <<ws, closeCode, sent, closed>>

\* case 'run_batch' (lines 350-372)
MsgRunBatch(k, m) ==
    /\ UNCHANGED <<locals, jobs>>
    /\ IF job = 0 \/ ~isCompiled
         THEN /\ NotReady(k)
              /\ UNCHANGED calls
       ELSE IF m.test_cases.t # "array" \/ m.test_cases.len = 0
         THEN /\ sent' = sendMessage(sent, k, "error", -1, 0,
                                     "test_cases array is required for run_batch")
              /\ Finish(k)
              /\ UNCHANGED <<ws, closeCode, closed, pend, calls>>
       ELSE /\ calls' = JobCall(calls, "runBatched", job)
            /\ Suspend(k, "runBatched", job)
            /\ UNCHANGED <<ws, closeCode, sent, closed>>

\* case 'close' (lines 392-399)
MsgClose(k) ==
    /\ UNCHANGED <<locals, jobs>>
    /\ sent' = sendMessage(sent, k, "done", testCount, totalTime, "")
    /\ IF job # 0
         THEN /\ calls' = JobCall(calls, "cleanup", job)
              /\ Suspend(k, "cleanup_close", job)
              /\ UNCHANGED <<ws, closeCode, closed>>
         ELSE /\ CloseAndFinish(k, 4999)
              /\ UNCHANGED calls

\* MsgDefault ending the session: the error is followed by ws.close(4002),
\* as in the outer catch
MsgDefaultClosing(k, m) ==
    /\ OuterCatch(k, "Unknown message type: " \o m.type)
    /\ UNCHANGED <<locals, jobs, calls>>

\* default (lines 401-402)
MsgDefault(k, m) ==
    /\ sent' = sendMessage(sent, k, "error", -1, 0, "Unknown message type: " \o m.type)
    /\ Finish(k)
    /\ UNCHANGED <<locals, jobs, calls, ws, closeCode, closed, pend>>

OnMessage(m) ==
    LET k == Len(inbox) + 1
    IN  /\ FramesDelivered
        /\ k <= MaxMsgs
        /\ m.type = "init" =>
              Cardinality({i \in 1..Len(inbox) : inbox[i].type = "init"}) < MaxInits
        /\ inbox' = Append(inbox, m)
        /\ UNCHANGED <<closePc, timerFired, compileResult, emitted>>
        /\ CASE m.type = "#invalid" -> MsgInvalid(k)
             [] m.type = "init" -> MsgInit(k, m)
             [] m.type = "run_test" -> MsgRunTest(k, m)
             [] m.type = "run_batch" -> MsgRunBatch(k, m)
             [] m.type = "close" -> MsgClose(k)
             [] OTHER -> MsgDefault(k, m)


(***************************************************************************)
(* Resumptions: the awaited promise of instance k settles and the instance *)
(* runs on to its next await or to its end.                                *)
(***************************************************************************)
\* how a Job call can settle
Settled == {"return", "throw"}

\* what job.compileOnly can return: success with no compile record (a
\* runtime that is not compiled), or a compile record and its verdict
CompileResults ==
    { [success |-> TRUE, record |-> FALSE, wall_time |-> Undef, stdout |-> Undef,
       stderr |-> Undef, message |-> Undef] }
    \cup { [success |-> ok, record |-> TRUE, wall_time |-> Num(MaxWall),
            stdout |-> Str(""), stderr |-> Str(""), message |-> Null] : ok \in BOOLEAN }

\* lines 265-274: job = await get_job(msg), then job.prime() is called
ResumeGetJob(k) ==
    /\ pc[k] = "get_job"
    /\ UNCHANGED <<box, testCount, totalTime, isCompiled, jobs, inbox, closePc, timerFired, compileResult, emitted>>
    /\ IF pend[k] = 0
         THEN /\ sent' = sendMessage(sent, k, "error", -1, 0, get_job_error(inbox[k].body))
              /\ CloseAndFinish(k, 4002)
              /\ UNCHANGED <<job, calls>>
         ELSE /\ job' = pend[k]
              /\ calls' = JobCall(calls, "prime", pend[k])
              /\ Suspend(k, "prime", pend[k])
              /\ UNCHANGED <<ws, closeCode, sent, closed>>

\* lines 274-284: box = await job.prime(), 'ready', job.compileOnly(box)
ResumePrime(k) ==
    /\ pc[k] = "prime"
    /\ UNCHANGED <<job, testCount, totalTime, isCompiled, jobs, inbox, closePc, timerFired, compileResult, emitted>>
    /\ \E how \in Settled :
         IF how = "return"
           THEN /\ box' = pend[k]
                /\ sent' = sendMessage(sent, k, "ready", job, 0, "")
                /\ calls' = JobCall(calls, "compileOnly", job)
                /\ Suspend(k, "compileOnly", job)
                /\ UNCHANGED <<ws, closeCode, closed>>
           ELSE /\ InitCatch(k, "prime failed")
                /\ UNCHANGED box

\* lines 284-298: the compile result, drawn from `results`, `compiled`,
\* cleanup on failure
CompileSettles(k, results) ==
    /\ pc[k] = "compileOnly"
    /\ UNCHANGED <<job, box, testCount, totalTime, jobs, inbox, closePc, timerFired, emitted>>
    /\ \/ \E result \in results :
            /\ compileResult' = [compileResult EXCEPT ![k] = result]
            /\ isCompiled' = result.success
            /\ sent' = sendMessageWith(sent, k, "compiled",
                                       IF result.success THEN 1 ELSE 0,
                                       -1,
                                       "",
                                       [stdout |-> CompiledMessage(result).stdout,
                                        stderr |-> CompiledMessage(result).stderr,
                                        error |-> CompiledMessage(result).error,
                                        test_id |-> Undef,
                                        time |-> CompiledMessage(result).time])
            /\ IF ~result.success
                 THEN /\ calls' = JobCall(calls, "cleanup", job)
                      /\ Suspend(k, "cleanup_compile", job)
                 ELSE /\ Finish(k)
                      /\ UNCHANGED <<pend, calls>>
            /\ UNCHANGED <<ws, closeCode, closed>>
       \/ /\ InitCatch(k, "compile failed to run")
          /\ UNCHANGED <<isCompiled, compileResult, emitted>>

ResumeCompileOnly(k) == CompileSettles(k, CompileResults)

\* lines 296-297: await job.cleanup() after a failed compile, close 4006
ResumeCleanupCompile(k) ==
    /\ pc[k] = "cleanup_compile"
    /\ UNCHANGED <<locals, jobs, inbox, closePc, timerFired, compileResult, emitted>>
    /\ \E how \in Settled :
         IF how = "return"
           THEN /\ CloseAndFinish(k, 4006)
                /\ UNCHANGED <<sent, calls>>
           ELSE InitCatch(k, "cleanup failed")

\* lines 302-303: await job.cleanup() in the init catch, close 4002
ResumeCleanupError(k) ==
    /\ pc[k] = "cleanup_error"
    /\ UNCHANGED <<locals, jobs, calls, inbox, closePc, timerFired, compileResult, emitted>>
    /\ \E how \in Settled :
         IF how = "return"
           THEN /\ CloseAndFinish(k, 4002)
                /\ UNCHANGED sent
           ELSE OuterCatch(k, "cleanup failed")

\* ResumeRunTest treating an exception of job.runTest as fatal: the error
\* is followed by ws.close(4002)
ResumeRunTestClosing(k) ==
    /\ pc[k] = "runTest"
    /\ UNCHANGED <<job, box, isCompiled, jobs, calls, inbox, closePc, timerFired, compileResult, emitted>>
    /\ \/ \E wall_time \in RunTimes :
            /\ testCount' = testCount + 1
            /\ totalTime' = totalTime + TimeOrZero(wall_time)
            /\ sent' = sendMessageWith(sent, k, "result", -1, -1, "",
                                       ResultData(inbox[k].test_id, testCount + 1,
                                                  wall_time))
            /\ Finish(k)
            /\ UNCHANGED <<ws, closeCode, closed, pend>>
       \/ /\ sent' = sendMessageWith(sent, k, "error", -1, 0, "runTest failed",
                                     TestIdData(inbox[k].test_id, testCount + 1))
          /\ CloseAndFinish(k, 4002)
          /\ UNCHANGED <<testCount, totalTime>>

\* ResumeRunTest counting the failed test: testCount++ also when
\* job.runTest throws
ResumeRunTestCounting(k) ==
    /\ pc[k] = "runTest"
    /\ UNCHANGED <<job, box, isCompiled, jobs, calls, inbox, closePc, timerFired, compileResult, emitted,
                   ws, closeCode, closed, pend>>
    /\ Finish(k)
    /\ \/ \E wall_time \in RunTimes :
            /\ testCount' = testCount + 1
            /\ totalTime' = totalTime + TimeOrZero(wall_time)
            /\ sent' = sendMessageWith(sent, k, "result", -1, -1, "",
                                       ResultData(inbox[k].test_id, testCount + 1,
                                                  wall_time))
       \/ /\ sent' = sendMessageWith(sent, k, "error", -1, 0, "runTest failed",
                                     TestIdData(inbox[k].test_id, testCount + 1))
          /\ testCount' = testCount + 1
          /\ UNCHANGED totalTime

\* lines 319-347: the test result or the exception of job.runTest
ResumeRunTest(k) ==
    /\ pc[k] = "runTest"
    /\ UNCHANGED <<job, box, isCompiled, jobs, calls, inbox, closePc, timerFired, compileResult, emitted,
                   ws, closeCode, closed, pend>>
    /\ Finish(k)
    /\ \/ \E wall_time \in RunTimes :
            /\ testCount' = testCount + 1
            /\ totalTime' = totalTime + TimeOrZero(wall_time)
            /\ sent' = sendMessageWith(sent, k, "result", -1, -1, "",
                                       ResultData(inbox[k].test_id, testCount + 1,
                                                  wall_time))
       \/ /\ sent' = sendMessageWith(sent, k, "error", -1, 0, "runTest failed",
                                     TestIdData(inbox[k].test_id, testCount + 1))
          /\ UNCHANGED <<testCount, totalTime>>

\* lines 367-389: the batch result or the exception of job.runBatched
ResumeRunBatched(k) ==
    /\ pc[k] = "runBatched"
    /\ UNCHANGED <<job, box, isCompiled, jobs, calls, inbox, closePc, timerFired, compileResult, emitted,
                   ws, closeCode, closed, pend>>
    /\ Finish(k)
    /\ \/ \E total_time \in RunTimes :
            /\ testCount' = inbox[k].test_cases.len
            /\ totalTime' = TimeOrZero(total_time)
            /\ sent' = sendMessageWith(sent, k, "batch_result",
                                       inbox[k].test_cases.len, -1, "",
                                       BatchResultData(total_time))
       \/ /\ sent' = sendMessage(sent, k, "error", -1, 0, "runBatched failed")
          /\ UNCHANGED <<testCount, totalTime>>

\* lines 397-398: await job.cleanup() of 'close', close 4999
ResumeCleanupClose(k) ==
    /\ pc[k] = "cleanup_close"
    /\ UNCHANGED <<locals, jobs, calls, inbox, closePc, timerFired, compileResult, emitted>>
    /\ \E how \in Settled :
         IF how = "return"
           THEN /\ CloseAndFinish(k, 4999)
                /\ UNCHANGED sent
           ELSE OuterCatch(k, "cleanup failed")

(***************************************************************************)
(* The client closes.  Its close frame moves ws.readyState from OPEN to    *)
(* CLOSING at once, with no close code of a handler; a later ws.close has  *)
(* no effect and a later ws.send is dropped.  The 'close' event follows in *)
(* a task of its own: pending continuations and the init timer run in      *)
(* between.  The frame can share a chunk with the frames before it, so it  *)
(* can precede the continuation of `await get_job(msg)`.                   *)
(***************************************************************************)
OnCloseFrame ==
    /\ ws = "OPEN"
    /\ ws' = "CLOSING"
    /\ UNCHANGED <<closeCode, locals, jobs, calls, inbox, pc, pend, sent, closed, closePc,
                   timerFired, compileResult, emitted>>

(***************************************************************************)
(* ws.on('close') (lines 410-418): the socket has closed, after the close  *)
(* handshake either side began or because the connection broke.  The event *)
(* is a task of its own, like the timer's callback.                        *)
(***************************************************************************)
OnClose ==
    /\ ws # "CLOSED"
    /\ NoGetJobPending
    /\ closePc = "idle"
    /\ ws' = "CLOSED"
    /\ IF job # 0
         THEN /\ calls' = JobCall(calls, "cleanup", job)
              /\ closePc' = "cleanup"
         ELSE /\ closePc' = "done"
              /\ UNCHANGED calls
    /\ UNCHANGED <<closeCode, locals, jobs, inbox, pc, pend, sent, closed, timerFired, compileResult, emitted>>

\* the awaited cleanup settles; an exception is caught and logged
ResumeOnClose ==
    /\ closePc = "cleanup"
    /\ closePc' = "done"
    /\ UNCHANGED <<ws, closeCode, locals, jobs, calls, inbox, pc, pend, sent, closed,
                   timerFired, compileResult, emitted>>

(***************************************************************************)
(* The init timer (lines 420-423).  A timer callback is a task of its own: *)
(* it does not run between the synchronous part of a listener and the      *)
(* continuation of `await get_job(msg)`, whose promise is settled when it  *)
(* is awaited (the continuation is a microtask of the listener's task).    *)
(***************************************************************************)
\* InitTimeout with the guard inverted: the timer closes the sessions that
\* have a job
InitTimeoutInverted ==
    /\ ~timerFired
    /\ NoGetJobPending
    /\ timerFired' = TRUE
    /\ UNCHANGED <<compileResult, emitted>>
    /\ IF job # 0
         THEN /\ closed' = [closed EXCEPT ![0] = 4001]
              /\ ws' = ReadyStateAfterClose
              /\ closeCode' = CloseCodeAfterClose(4001)
         ELSE UNCHANGED <<closed, ws, closeCode>>
    /\ UNCHANGED <<locals, jobs, calls, inbox, pc, pend, sent, closePc>>

InitTimeout ==
    /\ ~timerFired
    /\ NoGetJobPending
    /\ timerFired' = TRUE
    /\ UNCHANGED <<compileResult, emitted>>
    /\ IF job = 0
         THEN /\ closed' = [closed EXCEPT ![0] = 4001]
              /\ ws' = ReadyStateAfterClose
              /\ closeCode' = CloseCodeAfterClose(4001)
         ELSE UNCHANGED <<closed, ws, closeCode>>
    /\ UNCHANGED <<locals, jobs, calls, inbox, pc, pend, sent, closePc>>

Next ==
    \/ \E m \in Frames : OnMessage(m)
    \/ \E k \in 1..MaxMsgs : ResumeGetJob(k)
    \/ \E k \in 1..MaxMsgs : ResumePrime(k)
    \/ \E k \in 1..MaxMsgs : ResumeCompileOnly(k)
    \/ \E k \in 1..MaxMsgs : ResumeCleanupCompile(k)
    \/ \E k \in 1..MaxMsgs : ResumeCleanupError(k)
    \/ \E k \in 1..MaxMsgs : ResumeRunTest(k)
    \/ \E k \in 1..MaxMsgs : ResumeRunBatched(k)
    \/ \E k \in 1..MaxMsgs : ResumeCleanupClose(k)
    \/ OnCloseFrame
    \/ OnClose
    \/ ResumeOnClose
    \/ InitTimeout

Spec == Init /\ [][Next]_vars

(***************************************************************************)
(* A session of one `init` and one run_test/run_batch, over the `init`     *)
(* bodies get_job tells apart and the per-test overrides a run can carry.  *)
(***************************************************************************)
\* values of body.language and body.version
Languages == {Undef, Str(""), Num(1), Str("python"), Str("file"), Str("cobol")}
Versions == {Undef, Str(""), Str("*"), Str("9.9.9")}

\* values of body.files: absent, not an array, or an array of files
Base64File == [content |-> Str("AAEC"), encoding |-> Str("base64")]
Utf8File == [content |-> Str("code"), encoding |-> Str("utf8")]
NoContentFile == [content |-> Undef, encoding |-> Undef]
FilesChoices ==
    { [t |-> "undefined", items |-> << >>], [t |-> "string", items |-> << >>],
      NoFiles, OneFile,
      [t |-> "array", items |-> <<Base64File>>],
      [t |-> "array", items |-> <<Base64File, Utf8File>>],
      [t |-> "array", items |-> <<Utf8File, NoContentFile>>] }

\* values of a per-stage limit of the body
LimitValues == {Undef, Null, Num(-1), Num(0), Num(1), Num(3), Num(4), Str(""), Str("9")}

\* the limits of a body: one of the six is given, or none
LimitChoices ==
    { [NoLimits EXCEPT ![x] = v] : x \in LimitNames, v \in LimitValues }

\* bodies without limits, over every language, version and files value
ValidationBodies ==
    { [language |-> la, version |-> ve, files |-> fi, limits |-> NoLimits] :
        la \in Languages, ve \in Versions, fi \in FilesChoices }

\* bodies of an installed runtime, over the limits
LimitBodies ==
    { [language |-> la, version |-> Str("*"), files |-> OneFile, limits |-> l] :
        la \in {Str("python"), Str("file")}, l \in LimitChoices }

LimitInitFrames ==
    { Frame("init", b, Undef, NoCases) : b \in ValidationBodies \cup LimitBodies }

\* values of msg.timeout, msg.cpu_time and msg.memory_limit
OverrideValues == {Undef, Num(1), Num(5)}

\* the overrides of a run: one of the three is given, or none
OverrideChoices ==
    { [NoOverrides EXCEPT ![x] = v] :
        x \in {"timeout", "cpu_time", "memory_limit"}, v \in OverrideValues }

OverrideRunFrames ==
    { FrameWith(ty.type, NoBody, Undef, ty.cases, o) :
        ty \in { [type |-> "run_test", cases |-> NoCases],
                 [type |-> "run_batch", cases |-> [t |-> "array", len |-> 2]] },
        o \in OverrideChoices }

NextLimits ==
    \/ \E m \in LimitInitFrames : Len(inbox) = 0 /\ OnMessage(m)
    \/ \E m \in OverrideRunFrames : Len(inbox) = 1 /\ OnMessage(m)
    \/ \E k \in 1..MaxMsgs : ResumeGetJob(k)
    \/ \E k \in 1..MaxMsgs : ResumePrime(k)
    \/ \E k \in 1..MaxMsgs : ResumeCompileOnly(k)
    \/ \E k \in 1..MaxMsgs : ResumeCleanupCompile(k)
    \/ \E k \in 1..MaxMsgs : ResumeCleanupError(k)
    \/ \E k \in 1..MaxMsgs : ResumeRunTest(k)
    \/ \E k \in 1..MaxMsgs : ResumeRunBatched(k)
    \/ OnCloseFrame
    \/ OnClose
    \/ ResumeOnClose
    \/ InitTimeout

SpecLimits == Init /\ [][NextLimits]_vars

(***************************************************************************)
(* A session of one valid `init`, over the compile records job.compileOnly *)
(* can return: each field of the record present, empty or missing; and one *)
(* run_batch, over what msg.test_cases can be.                             *)
(***************************************************************************)
\* msg.test_cases: missing, a string, an empty list, a list of two cases
TestCases ==
    { [t |-> "undefined", len |-> 0], [t |-> "string", len |-> 3], NoCases,
      [t |-> "array", len |-> 2] }

BatchFrames == { Frame("run_batch", NoBody, Undef, c) : c \in TestCases }

WallTimes == {Undef, Num(0), Num(MaxWall)}
Outputs == {Undef, Str(""), Str("out")}
Messages == {Undef, Null, Str(""), Str("limit")}

AllCompileResults ==
    CompileResults
    \cup { [success |-> ok, record |-> TRUE, wall_time |-> t, stdout |-> o,
            stderr |-> e, message |-> m] :
            ok \in BOOLEAN, t \in WallTimes, o \in Outputs, e \in Outputs, m \in Messages }

NextCompile ==
    \/ Len(inbox) = 0 /\ OnMessage(Frame("init", GoodBody, Undef, NoCases))
    \/ \E m \in BatchFrames : Len(inbox) <= 1 /\ OnMessage(m)
    \/ \E k \in 1..MaxMsgs : ResumeGetJob(k)
    \/ \E k \in 1..MaxMsgs : ResumePrime(k)
    \/ \E k \in 1..MaxMsgs : CompileSettles(k, AllCompileResults)
    \/ \E k \in 1..MaxMsgs : ResumeCleanupCompile(k)
    \/ \E k \in 1..MaxMsgs : ResumeCleanupError(k)
    \/ \E k \in 1..MaxMsgs : ResumeRunBatched(k)
    \/ OnCloseFrame
    \/ OnClose
    \/ ResumeOnClose
    \/ InitTimeout

SpecCompile == Init /\ [][NextCompile]_vars

(***************************************************************************)
(* The /connect session (lines 136-235): `init` runs one Job to its end,   *)
(* `data` and `signal` frames are forwarded to the Job over event_bus.  It *)
(* has the state of a /judge session that it needs: ws, closeCode, job,    *)
(* jobs, calls, inbox, pc, pend, sent, closed, timerFired; and emitted.    *)
(* A frame of /connect is [type, body, stream, signal].                    *)
(***************************************************************************)
\* globals.SIGNALS (api/src/globals.js): the signals a client may send
SIGNALS == {Str("SIGKILL"), Str("SIGINT")}

ConnectFrame(type, body, stream, signal) ==
    [type |-> type, body |-> body, stream |-> stream, signal |-> signal]

ConnectFrames ==
    { ConnectFrame("init", b, Undef, Undef) : b \in InitBodies }
    \cup { ConnectFrame("data", NoBody, st, Undef) :
               st \in {Str("stdin"), Str("stdout"), Undef} }
    \cup { ConnectFrame("signal", NoBody, Undef, sg) :
               sg \in {Str("SIGKILL"), Str("SIGNOPE"), Undef} }
    \cup { ConnectFrame(ty, NoBody, Undef, Undef) : ty \in {"ping", "#invalid"} }

\* what /connect leaves alone: the variables only /judge has
judgeOnly == <<box, testCount, totalTime, isCompiled, closePc, compileResult>>

\* the catch of the listener (lines 224-227)
ConnectCatch(k, message) ==
    /\ sent' = sendMessage(sent, k, "error", -1, 0, message)
    /\ CloseAndFinish(k, 4002)

\* case 'init' (lines 170-197), up to `await get_job(msg)`
ConnectMsgInit(k, m) ==
    /\ UNCHANGED <<job, sent, emitted>>
    /\ IF job = 0
         THEN LET r == get_job(m.body)
              IN  /\ jobs' = IF r.ok THEN Append(jobs, r.job) ELSE jobs
                  /\ calls' = IF r.ok THEN Append(calls, [x \in Methods |-> 0]) ELSE calls
                  /\ Suspend(k, "get_job", IF r.ok THEN Len(jobs) + 1 ELSE 0)
                  /\ UNCHANGED <<ws, closeCode, closed>>
         ELSE /\ CloseAndFinish(k, 4000)
              /\ UNCHANGED <<jobs, calls>>

\* ConnectMsgData without the stream check: whatever the stream, the data
\* is emitted as stdin
ConnectMsgDataAnyStream(k, m) ==
    /\ UNCHANGED <<job, jobs, calls, sent>>
    /\ IF job # 0
         THEN /\ emitted' = [emitted EXCEPT ![k] = "stdin"]
              /\ Finish(k)
              /\ UNCHANGED <<ws, closeCode, closed, pend>>
         ELSE /\ CloseAndFinish(k, 4003)
              /\ UNCHANGED emitted

\* case 'data' (lines 199-209)
ConnectMsgData(k, m) ==
    /\ UNCHANGED <<job, jobs, calls, sent>>
    /\ IF job # 0
         THEN IF m.stream = Str("stdin")
                THEN /\ emitted' = [emitted EXCEPT ![k] = "stdin"]
                     /\ Finish(k)
                     /\ UNCHANGED <<ws, closeCode, closed, pend>>
                ELSE /\ CloseAndFinish(k, 4004)
                     /\ UNCHANGED emitted
         ELSE /\ CloseAndFinish(k, 4003)
              /\ UNCHANGED emitted

\* case 'signal' (lines 210-222)
ConnectMsgSignal(k, m) ==
    /\ UNCHANGED <<job, jobs, calls, sent>>
    /\ IF job # 0
         THEN IF m.signal \in SIGNALS
                THEN /\ emitted' = [emitted EXCEPT ![k] = "signal"]
                     /\ Finish(k)
                     /\ UNCHANGED <<ws, closeCode, closed, pend>>
                ELSE /\ CloseAndFinish(k, 4005)
                     /\ UNCHANGED emitted
         ELSE /\ CloseAndFinish(k, 4003)
              /\ UNCHANGED emitted

\* a type the switch has no case for: nothing happens
ConnectMsgOther(k) ==
    /\ Finish(k)
    /\ UNCHANGED <<job, jobs, calls, sent, emitted, ws, closeCode, closed, pend>>

\* ws.on('message') of /connect (lines 165-229)
ConnectOnMessage(m) ==
    LET k == Len(inbox) + 1
    IN  /\ FramesDelivered
        /\ k <= MaxMsgs
        /\ m.type = "init" =>
              Cardinality({i \in 1..Len(inbox) : inbox[i].type = "init"}) < MaxInits
        /\ inbox' = Append(inbox, m)
        /\ UNCHANGED <<judgeOnly, timerFired>>
        /\ CASE m.type = "#invalid" ->
                   /\ ConnectCatch(k, "Unexpected token")
                   /\ UNCHANGED <<job, jobs, calls, emitted>>
             [] m.type = "init" -> ConnectMsgInit(k, m)
             [] m.type = "data" -> ConnectMsgData(k, m)
             [] m.type = "signal" -> ConnectMsgSignal(k, m)
             [] OTHER -> ConnectMsgOther(k)

\* line 172: job = await get_job(msg); line 175: job.prime() is called
ConnectResumeGetJob(k) ==
    /\ pc[k] = "get_job"
    /\ UNCHANGED <<judgeOnly, jobs, inbox, timerFired, emitted>>
    /\ IF pend[k] = 0
         THEN /\ ConnectCatch(k, get_job_error(inbox[k].body))
              /\ UNCHANGED <<job, calls>>
         ELSE /\ job' = pend[k]
              /\ calls' = JobCall(calls, "prime", pend[k])
              /\ Suspend(k, "prime", pend[k])
              /\ UNCHANGED <<ws, closeCode, sent, closed>>

\* lines 175-193: prime returns: `runtime`, job.execute is called; prime
\* throws: the finally block calls job.cleanup with the error pending
ConnectResumePrime(k) ==
    /\ pc[k] = "prime"
    /\ UNCHANGED <<judgeOnly, job, jobs, inbox, timerFired, emitted, ws, closeCode, closed>>
    /\ \E how \in Settled :
         IF how = "return"
           THEN /\ sent' = sendMessage(sent, k, "runtime", job, 0, "")
                /\ calls' = JobCall(calls, "execute", job)
                /\ Suspend(k, "execute", job)
           ELSE /\ calls' = JobCall(calls, "cleanup", job)
                /\ Suspend(k, "cleanup_thrown", job)
                /\ UNCHANGED sent

\* lines 140-163: the running Job emits stdout, stderr, stage or exit on
\* event_bus and the handler sends it on
ConnectJobEmits(k) ==
    /\ pc[k] = "execute"
    /\ Len(sent[k]) <= MaxEvents
    /\ \E type \in {"data", "stage", "exit"} :
          sent' = sendMessage(sent, k, type, 0, 0, "")
    /\ UNCHANGED <<judgeOnly, job, jobs, calls, inbox, pc, pend, timerFired, emitted,
                   ws, closeCode, closed>>

\* lines 185-193: job.execute settles and the finally block calls
\* job.cleanup
ConnectResumeExecute(k) ==
    /\ pc[k] = "execute"
    /\ UNCHANGED <<judgeOnly, job, jobs, inbox, timerFired, emitted, ws, closeCode, closed,
                   sent>>
    /\ calls' = JobCall(calls, "cleanup", job)
    /\ \E how \in Settled :
         Suspend(k, IF how = "return" THEN "cleanup_finally" ELSE "cleanup_thrown", job)

\* lines 191-194: the cleanup of the finally block settles after prime and
\* execute returned: ws.close(4999), or the catch when the cleanup threw
ConnectResumeCleanupFinally(k) ==
    /\ pc[k] = "cleanup_finally"
    /\ UNCHANGED <<judgeOnly, job, jobs, calls, inbox, timerFired, emitted>>
    /\ \E how \in Settled :
         IF how = "return"
           THEN /\ CloseAndFinish(k, 4999)
                /\ UNCHANGED sent
           ELSE ConnectCatch(k, "cleanup failed")

\* lines 186-193, 224-227: the cleanup of the finally block settles after
\* prime or execute threw: the error, or the one of the cleanup, is caught
ConnectResumeCleanupThrown(k) ==
    /\ pc[k] = "cleanup_thrown"
    /\ UNCHANGED <<judgeOnly, job, jobs, calls, inbox, timerFired, emitted>>
    /\ \E how \in Settled :
         ConnectCatch(k, IF how = "return" THEN "job failed" ELSE "cleanup failed")

\* the client's close frame: ws.readyState leaves OPEN, no handler's code
ConnectOnCloseFrame ==
    /\ ws = "OPEN"
    /\ ws' = "CLOSING"
    /\ UNCHANGED <<judgeOnly, closeCode, job, jobs, calls, inbox, pc, pend, sent, closed,
                   timerFired, emitted>>

\* the socket has closed; /connect has no listener for it
ConnectSocketCloses ==
    /\ ws # "CLOSED"
    /\ NoGetJobPending
    /\ ws' = "CLOSED"
    /\ UNCHANGED <<judgeOnly, closeCode, job, jobs, calls, inbox, pc, pend, sent, closed,
                   timerFired, emitted>>

\* the init timer of /connect (lines 231-234)
ConnectInitTimeout ==
    /\ ~timerFired
    /\ NoGetJobPending
    /\ timerFired' = TRUE
    /\ IF job = 0
         THEN /\ closed' = [closed EXCEPT ![0] = 4001]
              /\ ws' = ReadyStateAfterClose
              /\ closeCode' = CloseCodeAfterClose(4001)
         ELSE UNCHANGED <<closed, ws, closeCode>>
    /\ UNCHANGED <<judgeOnly, job, jobs, calls, inbox, pc, pend, sent, emitted>>

NextConnect ==
    \/ \E m \in ConnectFrames : ConnectOnMessage(m)
    \/ \E k \in 1..MaxMsgs : ConnectResumeGetJob(k)
    \/ \E k \in 1..MaxMsgs : ConnectResumePrime(k)
    \/ \E k \in 1..MaxMsgs : ConnectJobEmits(k)
    \/ \E k \in 1..MaxMsgs : ConnectResumeExecute(k)
    \/ \E k \in 1..MaxMsgs : ConnectResumeCleanupFinally(k)
    \/ \E k \in 1..MaxMsgs : ConnectResumeCleanupThrown(k)
    \/ ConnectOnCloseFrame
    \/ ConnectSocketCloses
    \/ ConnectInitTimeout

SpecConnect == Init /\ [][NextConnect]_vars

(***************************************************************************)
(* POST /execute (lines 426-454), behind the content-type check of         *)
(* router.use (lines 122-134).  Request k is inbox[k]; its `let job` is    *)
(* pend[k], its handler is at pc[k], and sent[k] holds the responses the   *)
(* handler has sent (v is the status).  Requests share nothing.            *)
(***************************************************************************)
ExecuteRequest(body, json) == [type |-> "execute", body |-> body, json |-> json]

\* the requests: a JSON body get_job accepts or rejects, or another
\* content type
ExecuteRequests ==
    { ExecuteRequest(b, TRUE) : b \in InitBodies } \cup { ExecuteRequest(GoodBody, FALSE) }

\* what job.execute can return: a result with a run stage, or one with the
\* compile stage only
ExecuteResults == { [run |-> started] : started \in BOOLEAN }

\* what POST /execute leaves alone: the state of the websocket sessions
sessionOnly == <<judgeOnly, ws, closeCode, job, closed, timerFired, emitted>>

\* res.status(status).send(...): the response of request k
respond(s, k, status, text) == sendMessage(s, k, "response", status, 0, text)

\* the finally block (lines 446-447): job.cleanup() is called and awaited
ExecuteFinally(k) ==
    /\ calls' = JobCall(calls, "cleanup", pend[k])
    /\ pc' = [pc EXCEPT ![k] = "cleanup"]

\* lines 122-134 and 426-429: the request arrives; get_job is called
ExecuteOnRequest(r) ==
    LET k == Len(inbox) + 1
    IN  /\ k <= MaxMsgs
        /\ inbox' = Append(inbox, r)
        /\ UNCHANGED sessionOnly
        /\ IF ~r.json
             THEN /\ sent' = respond(sent, k, 415, "")
                  /\ Finish(k)
                  /\ UNCHANGED <<jobs, calls, pend>>
             ELSE LET g == get_job(r.body)
                  IN  /\ jobs' = IF g.ok THEN Append(jobs, g.job) ELSE jobs
                      /\ calls' = IF g.ok THEN Append(calls, [x \in Methods |-> 0])
                                            ELSE calls
                      /\ Suspend(k, "get_job", IF g.ok THEN Len(jobs) + 1 ELSE 0)
                      /\ UNCHANGED sent

\* lines 428-434: get_job rejects: 400; or job.prime() is called
ExecuteResumeGetJob(k) ==
    /\ pc[k] = "get_job"
    /\ UNCHANGED <<sessionOnly, jobs, inbox, pend>>
    /\ IF pend[k] = 0
         THEN /\ sent' = respond(sent, k, 400, get_job_error(inbox[k].body))
              /\ Finish(k)
              /\ UNCHANGED calls
         ELSE /\ calls' = JobCall(calls, "prime", pend[k])
              /\ pc' = [pc EXCEPT ![k] = "prime"]
              /\ UNCHANGED sent

\* lines 434-447: prime returns and job.execute is called; or prime throws:
\* the catch sends 500, then the finally block runs
ExecuteResumePrime(k) ==
    /\ pc[k] = "prime"
    /\ UNCHANGED <<sessionOnly, jobs, inbox, pend>>
    /\ \E how \in Settled :
         IF how = "return"
           THEN /\ calls' = JobCall(calls, "execute", pend[k])
                /\ pc' = [pc EXCEPT ![k] = "execute"]
                /\ UNCHANGED sent
           ELSE /\ sent' = respond(sent, k, 500, "")
                /\ ExecuteFinally(k)

\* lines 436-447: job.execute returns: `res.status(200).send(result)` is
\* evaluated, with result.run filled from result.compile when the run stage
\* was not started; or it throws: the catch sends 500; then the finally
\* block runs
ExecuteResumeExecute(k) ==
    /\ pc[k] = "execute"
    /\ UNCHANGED <<sessionOnly, jobs, inbox, pend>>
    /\ \/ \E result \in ExecuteResults :
            sent' = respond(sent, k, 200, IF result.run THEN "run" ELSE "compile")
       \/ sent' = respond(sent, k, 500, "")
    /\ ExecuteFinally(k)

\* lines 446-452: the cleanup returns and the handler returns; or it
\* throws: res.status(500).send() on the response that is already sent
\* sends nothing
ExecuteResumeCleanup(k) ==
    /\ pc[k] = "cleanup"
    /\ UNCHANGED <<sessionOnly, jobs, calls, inbox, pend, sent>>
    /\ \E how \in Settled :
         pc' = [pc EXCEPT ![k] = IF how = "return" THEN "done" ELSE "cleanup_failed"]

NextExecute ==
    \/ \E r \in ExecuteRequests : ExecuteOnRequest(r)
    \/ \E k \in 1..MaxMsgs : ExecuteResumeGetJob(k)
    \/ \E k \in 1..MaxMsgs : ExecuteResumePrime(k)
    \/ \E k \in 1..MaxMsgs : ExecuteResumeExecute(k)
    \/ \E k \in 1..MaxMsgs : ExecuteResumeCleanup(k)

SpecExecute == Init /\ [][NextExecute]_vars


(***************************************************************************)
(* Vocabulary of the properties.                                           *)
(***************************************************************************)
Instances == 1..MaxMsgs
Arrived == 1..Len(inbox)

\* the types of the messages instance k has sent, in order
Types(k) == [i \in 1..Len(sent[k]) |-> sent[k][i].type]

HasSent(k, type) == \E i \in 1..Len(sent[k]) : sent[k][i].type = type

\* instance k sent `compiled` with the given success flag (1 or 0)
SentCompiled(k, flag) ==
    \E i \in 1..Len(sent[k]) : sent[k][i].type = "compiled" /\ sent[k][i].v = flag

\* the session is over: socket closed, nothing suspended
SessionOver ==
    /\ ws = "CLOSED"
    /\ closePc = "done"
    /\ \A k \in Instances : pc[k] \notin Awaits

\* frame k arrives in this step
Arrives(k) == Len(inbox) = k - 1 /\ Len(inbox') = k

\* instance k passes a message to ws.send in this step
Sends(k) == Len(sent'[k]) > Len(sent[k])

LastSent(k) == sent'[k][Len(sent'[k])]

RECURSIVE SumOver(_, _)
SumOver(f, n) == IF n = 0 THEN 0 ELSE f[n] + SumOver(f, n - 1)

(***************************************************************************)
(* C1.  Job.cleanup is invoked exactly once per Job over the lifetime of   *)
(* the session: never twice, and not zero times once the session is over.  *)
(***************************************************************************)
\* C1: every constructed Job has at most one cleanup call, and exactly one
\* once the session is over
C1_CleanupExactlyOnce ==
    \A j \in 1..Len(jobs) :
        /\ calls[j].cleanup <= 1
        /\ SessionOver => calls[j].cleanup = 1

(***************************************************************************)
(* C2.  Inbound messages are strictly serialized: no frame starts its      *)
(* listener instance while an earlier instance is suspended in an await.   *)
(***************************************************************************)
\* C2: when frame k arrives, no earlier instance is suspended
C2_StrictlySerialized ==
    [][\A k \in Instances :
          Arrives(k) => \A j \in 1..(k - 1) : pc[j] \notin Awaits]_vars

(***************************************************************************)
(* C3.  Of two accepted run_test frames, the earlier one is answered       *)
(* (result or error) before the later one.                                 *)
(***************************************************************************)
\* C3: when the run_test of instance k is answered, no earlier instance is
\* still waiting for its job.runTest
C3_ResultsInOrder ==
    [][\A k \in Instances :
          (pc[k] = "runTest" /\ pc'[k] = "done")
              => \A j \in 1..(k - 1) : pc[j] # "runTest"]_vars

(***************************************************************************)
(* C4.  The test_id of a result is the client's test_id whenever the       *)
(* frame carries one (0 included); otherwise it is at least 1 and greater  *)
(* than every test_id the server assigned to an earlier result.            *)
(***************************************************************************)
ServerAssigned(k) ==
    /\ k \in Arrived
    /\ inbox[k].type = "run_test"
    /\ inbox[k].test_id = Undef
    /\ HasSent(k, "result")

\* C4: a result echoes the frame's test_id when there is one, and otherwise
\* carries an id >= 1 above every id assigned before
C4_TestIdEchoedOrIncreasing ==
    [][\A k \in Instances :
          (Sends(k) /\ LastSent(k).type = "result")
              => IF inbox[k].test_id # Undef
                   THEN LastSent(k).data.test_id = inbox[k].test_id
                   ELSE /\ LastSent(k).data.test_id.t = "number"
                        /\ LastSent(k).data.test_id.n >= 1
                        /\ \A j \in Instances :
                              ServerAssigned(j)
                                  => LastSent(k).data.test_id.n
                                         > sent[j][1].data.test_id.n]_vars

(***************************************************************************)
(* C5.  testCount and totalTime, which `done` reports, are running sums    *)
(* over everything served so far: one test per result plus the cases of    *)
(* every served batch; the wall times of the results plus the total_time   *)
(* of every served batch.                                                  *)
(***************************************************************************)
ServedTests ==
    SumOver([k \in Instances |->
                IF HasSent(k, "result") THEN 1
                ELSE IF HasSent(k, "batch_result") THEN inbox[k].test_cases.len
                ELSE 0], MaxMsgs)

ServedTime ==
    SumOver([k \in Instances |->
                IF HasSent(k, "result") \/ HasSent(k, "batch_result")
                  THEN TimeOrZero(sent[k][1].data.time) ELSE 0], MaxMsgs)

\* C5: testCount and totalTime equal the sums over what was served
C5_RunningSums == testCount = ServedTests /\ totalTime = ServedTime


(***************************************************************************)
(* C6.  While job is null every inbound command (run_test, run_batch,      *)
(* close, an unknown type) is answered by ws.close(4003) with nothing sent *)
(* before it.                                                              *)
(***************************************************************************)
\* what the claim requires of instance k when its frame arrives with job null
ClosedNotYetInitialized(k) ==
    /\ pc'[k] = "done"
    /\ sent'[k] = << >>
    /\ sent' = sent
    /\ closed'[k] = 4003
    /\ ws = "OPEN" => (ws' = "CLOSING" /\ closeCode' = 4003)
    /\ calls' = calls

\* C6: run_test, run_batch, close and unknown types are all answered by
\* ws.close(4003) with nothing sent, while job is null
C6_AnyCommandBeforeInit ==
    [][\A k \in Instances :
          (Arrives(k) /\ job = 0
             /\ inbox'[k].type \in {"run_test", "run_batch", "close", "ping"})
              => ClosedNotYetInitialized(k)]_vars

(***************************************************************************)
(* C7.  At most one init is accepted: the session constructs at most one   *)
(* Job, calls prime and compileOnly at most once, and every init that      *)
(* arrives after an init with a valid body is answered by ws.close(4000).  *)
(***************************************************************************)
CallsOf(method) == SumOver([j \in 1..Len(jobs) |-> calls[j][method]], Len(jobs))

\* C7: at most one Job, one prime, one compileOnly; a later init gets 4000
C7_SingleInit ==
    /\ Len(jobs) <= 1
    /\ CallsOf("prime") <= 1
    /\ CallsOf("compileOnly") <= 1
    /\ \A k \in Arrived :
          (inbox[k].type = "init"
             /\ \E i \in 1..(k - 1) : inbox[i].type = "init" /\ get_job(inbox[i].body).ok)
              => closed[k] = 4000

(***************************************************************************)
(* C8.  job.runTest and job.runBatched are called only after a             *)
(* compiled{success:true} was emitted, never while an init is still        *)
(* priming or compiling, and never after a compile failure.                *)
(***************************************************************************)
\* C8: a step that calls runTest or runBatched happens after a successful
\* `compiled`, with no init priming or compiling and no failed `compiled`
C8_RunOnlyWhenCompiled ==
    [][(CallsOf("runTest")' > CallsOf("runTest")
          \/ CallsOf("runBatched")' > CallsOf("runBatched"))
        => /\ \E k \in Instances : SentCompiled(k, 1)
           /\ \A k \in Instances : pc[k] \notin {"prime", "compileOnly"}
           /\ \A k \in Instances : ~SentCompiled(k, 0)]_vars

(***************************************************************************)
(* C9.  An init whose compile stage does not succeed emits `ready`, then   *)
(* `compiled` with success false and nothing else, cleans the Job up and   *)
(* calls ws.close(4006).                                                   *)
(***************************************************************************)
\* C9: an instance that sent compiled{success:false} sent exactly `ready`
\* and `compiled`, cleanup was called, and it ends with ws.close(4006)
C9_CompileFailure ==
    \A k \in Instances :
        SentCompiled(k, 0)
            => /\ Types(k) = <<"ready", "compiled">>
               /\ CallsOf("cleanup") >= 1
               /\ pc[k] = "done" => closed[k] = 4006

(***************************************************************************)
(* C10.  A close received once a Job exists produces `done` and then       *)
(* ws.close(4999), and nothing is sent in the session after that `done`.   *)
(***************************************************************************)
\* instance k handled a `close` frame while job was not null
ClosePostInit(k) ==
    /\ k \in Arrived
    /\ inbox[k].type = "close"
    /\ pend[k] # 0

\* C10: after the `done` of a close handled with a Job, nothing more is
\* sent, and that instance ends with ws.close(4999)
C10_DoneIsLast ==
    [][\A k \in Instances :
          ClosePostInit(k)
              => /\ sent' = sent
                 /\ pc'[k] = "done" => closed'[k] = 4999]_vars

(***************************************************************************)
(* C11.  `ready` precedes `compiled`, and the client receives each of them *)
(* at most once in a session.  A message reaches the client when it is     *)
(* sent on an OPEN socket, and then every earlier message of the session   *)
(* was sent on an OPEN socket too.                                         *)
(***************************************************************************)
\* C11: a `ready` sent on the open socket is the first `ready` of the
\* session; a `compiled` sent on the open socket is the first `compiled`
\* and comes after a `ready`
C11_ReadyOnceThenCompiledOnce ==
    [][\A k \in Instances :
          (Sends(k) /\ ws = "OPEN")
              => /\ LastSent(k).type = "ready"
                    => \A j \in Instances : ~HasSent(j, "ready")
                 /\ LastSent(k).type = "compiled"
                    => /\ \A j \in Instances : ~HasSent(j, "compiled")
                       /\ \E j \in Instances : HasSent(j, "ready")]_vars

(***************************************************************************)
(* C12.  An `init` whose language or version is not a non-empty string,    *)
(* whose files is not a non-empty list (whatever the runtime), one of      *)
(* whose files has a content that is not a string, whose runtime is        *)
(* unknown, or that has no utf8 file while the runtime language is not     *)
(* `file`, is rejected: no Job is constructed, prime is not called, the    *)
(* listener sends exactly one `error` and calls ws.close(4002).            *)
(***************************************************************************)
NonEmptyString(v) == v.t = "string" /\ v.s # ""

KnownRuntime(body) ==
    \E rt \in InstalledRuntimes :
        rt.language = body.language.s /\ body.version.s \in {"*", rt.version}

IsUtf8(file) == file.encoding \in {Undef, Null, Str(""), Str("utf8")}

\* the bodies the claim says get_job rejects
InvalidInit(body) ==
    \/ ~NonEmptyString(body.language)
    \/ ~NonEmptyString(body.version)
    \/ body.files.t # "array"
    \/ Len(body.files.items) = 0
    \/ \E i \in 1..Len(body.files.items) : body.files.items[i].content.t # "string"
    \/ ~KnownRuntime(body)
    \/ /\ body.language # Str("file")
       /\ \A i \in 1..Len(body.files.items) : ~IsUtf8(body.files.items[i])

\* C12: an invalid init handled with job null constructs no Job, and when
\* its listener resumes it sends one `error`, calls ws.close(4002), which
\* closes an open socket with 4002, and calls no Job method
C12_InvalidInitRejected ==
    [][\A k \in Instances :
          /\ (Arrives(k) /\ job = 0 /\ inbox'[k].type = "init"
                /\ InvalidInit(inbox'[k].body))
               => (jobs' = jobs /\ calls' = calls /\ pc'[k] = "get_job")
          /\ (pc[k] = "get_job" /\ pc'[k] # "get_job" /\ InvalidInit(inbox[k].body))
               => /\ pc'[k] = "done"
                  /\ Len(sent'[k]) = 1
                  /\ sent'[k][1].type = "error"
                  /\ closed'[k] = 4002
                  /\ ws = "OPEN" => closeCode' = 4002
                  /\ jobs' = jobs
                  /\ calls' = calls]_vars

(***************************************************************************)
(* C13.  An `init` in which one of the six per-stage limits is given and   *)
(* is not a number, or is negative, or exceeds a configured maximum that   *)
(* is > 0, is rejected: no Job is constructed from it.  A value that is    *)
(* not a number or is negative is rejected whatever the maximum is.        *)
(***************************************************************************)
\* the limit is given: the field is present and not null
Supplied(v) == v.t \notin {"undefined", "null"}

\* the bodies the claim says get_job rejects for their limits
InvalidLimits(body) ==
    \E constraint \in {"memory_limit", "timeout", "cpu_time"}, type \in {"compile", "run"} :
        LET v == body.limits[ConstraintName(type, constraint)]
            M == ConfiguredLimit(get_latest_runtime_matching_language_version(
                                     body.language.s, body.version.s),
                                 constraint, type)
        IN  /\ Supplied(v)
            /\ \/ v.t # "number"
               \/ v.n < 0
               \/ M > 0 /\ v.n > M

\* C13: an init with an invalid limit, handled with job null, constructs no Job
C13_InvalidLimitsRejected ==
    [][\A k \in Instances :
          (Arrives(k) /\ job = 0 /\ inbox'[k].type = "init"
             /\ InvalidLimits(inbox'[k].body))
              => (jobs' = jobs /\ pend'[k] = 0)]_vars

(***************************************************************************)
(* C14.  For an accepted `init`, every stage and every limit kind whose    *)
(* configured maximum M is > 0: the Job stores min(L, M) when the request  *)
(* gave the limit L and M when it did not, so never more than M; and an    *)
(* `init` with L > M constructs no Job.                                    *)
(***************************************************************************)
\* the limit a Job holds for a stage
StoredLimit(j, constraint, type) ==
    CASE constraint = "memory_limit" -> j.memory_limits[type]
      [] constraint = "timeout" -> j.timeouts[type]
      [] constraint = "cpu_time" -> j.cpu_times[type]

MinOf(a, b) == IF a <= b THEN a ELSE b

\* what the claim requires of the frame `m` whose handling changes jobs to `js`
EffectiveLimits(m, js, constructed) ==
    \A constraint \in {"memory_limit", "timeout", "cpu_time"}, type \in {"compile", "run"} :
        LET L == m.body.limits[ConstraintName(type, constraint)]
            M == ConfiguredLimit(get_latest_runtime_matching_language_version(
                                     m.body.language.s, m.body.version.s),
                                 constraint, type)
            stored == StoredLimit(js[Len(js)], constraint, type)
        IN  M > 0 =>
              /\ (L.t = "number" /\ L.n > M) => ~constructed
              /\ constructed =>
                    /\ Supplied(L) => stored = Num(MinOf(L.n, M))
                    /\ ~Supplied(L) => stored = Num(M)
                    /\ stored.n <= M

\* C14: the Job an init constructs holds min(L, M) or M for every limit
\* with a maximum M > 0, and no Job is constructed when L > M
C14_StoredLimitIsMin ==
    [][\A k \in Instances :
          (Arrives(k) /\ job = 0 /\ inbox'[k].type = "init")
              => EffectiveLimits(inbox'[k], jobs', jobs' # jobs)]_vars

(***************************************************************************)
(* C15.  The limit a test of run_test or run_batch is executed under never *)
(* exceeds the runtime's configured run maximum M when M > 0, whatever     *)
(* override (timeout, cpu_time, memory_limit) the frame carries.           *)
(* The handlers hand msg.timeout || null, msg.cpu_time || null and         *)
(* msg.memory_limit || null to job.runTest and job.runBatched as they are  *)
(* (lines 321-323, 368-370); the limit a test runs under is decided inside *)
(* the Job, whose code is not part of the sources modelled here, so no     *)
(* state of this model carries it and the claim has no formula.            *)
(***************************************************************************)

(***************************************************************************)
(* C16.  When the init timer fires on a session that is still open and in  *)
(* which no Job has been created, the session is closed with code 4001,    *)
(* and 4001 remains its close code.                                        *)
(***************************************************************************)
\* the init timer fires in this step
TimerFires == ~timerFired /\ timerFired'

\* C16: the timer firing on an open session without a Job calls
\* ws.close(4001), which closes the socket with code 4001, for good
C16_InitTimeoutCloses ==
    [][/\ (TimerFires /\ Len(jobs) = 0 /\ ws = "OPEN")
            => (closed'[0] = 4001 /\ ws' = "CLOSING" /\ closeCode' = 4001)
       /\ (timerFired /\ closeCode = 4001) => closeCode' = 4001]_vars

\* C16 witness: a session without a Job was closed by the timer and has ended
C16_Witness ==
    /\ timerFired
    /\ Len(jobs) = 0
    /\ closed[0] = 4001
    /\ closeCode = 4001
    /\ ws = "CLOSED"
    /\ closePc = "done"

(***************************************************************************)
(* C17.  After a client disconnect (the socket closes without the server   *)
(* having closed it) the Job is closed and stays closed: once cleanup has  *)
(* been called on a Job no prime, compileOnly, runTest or runBatched is    *)
(* started on it, and when the session is over every Job has been cleaned  *)
(* up.                                                                     *)
(***************************************************************************)
\* the client has disconnected: the 'close' event came with no ws.close
\* of the server before it
Disconnected == closePc # "idle" /\ closeCode = 0

\* C17: after a disconnect no Job method starts on a cleaned-up Job, and at
\* the end of the session every Job has had its cleanup
C17_DisconnectReleases ==
    [][/\ \A j \in 1..Len(jobs) :
             (Disconnected /\ calls[j].cleanup >= 1)
                 => \A method \in {"prime", "compileOnly", "runTest", "runBatched"} :
                       calls'[j][method] = calls[j][method]
       /\ (Disconnected' /\ SessionOver')
             => \A j \in 1..Len(jobs') : calls'[j].cleanup >= 1]_vars

(***************************************************************************)
(* C18.  A frame with an unknown type is answered by exactly one `error`   *)
(* with the message "Unknown message type: <type>" and changes nothing     *)
(* else: job, isCompiled, testCount and totalTime are unchanged, no Job    *)
(* method is called and the socket is not closed.                          *)
(***************************************************************************)
KnownTypes == {"init", "run_test", "run_batch", "close"}

\* the frame parses and its type is none the listener knows
UnknownType(m) == m.type \notin KnownTypes \cup {"#invalid"}

UnknownTypeError(type) ==
    [type |-> "error", v |-> -1, w |-> 0,
     text |-> CASE type = "ping" -> "Unknown message type: ping"
                [] type = "status" -> "Unknown message type: status"
                [] OTHER -> "",
     data |-> NoData]

\* C18: the listener of an unknown type sends the one error and ends; the
\* session state, the Job and the socket are as before
C18_UnknownTypeNoStateChange ==
    [][\A k \in Instances :
          (Arrives(k) /\ UnknownType(inbox'[k]))
              => /\ sent' = [sent EXCEPT ![k] = <<UnknownTypeError(inbox'[k].type)>>]
                 /\ pc'[k] = "done"
                 /\ UNCHANGED <<job, box, isCompiled, testCount, totalTime>>
                 /\ UNCHANGED <<jobs, calls>>
                 /\ UNCHANGED <<ws, closeCode, closed>>]_vars

\* C18 witness: an unknown type was answered in a compiled session, which
\* is still open
C18_Witness ==
    \E k \in Arrived :
        /\ inbox[k].type = "status"
        /\ sent[k] = <<UnknownTypeError("status")>>
        /\ job # 0
        /\ isCompiled
        /\ ws = "OPEN"

(***************************************************************************)
(* C19.  When job.runTest throws, the run_test listener sends one `error`  *)
(* carrying the client's test_id or the next counter value, leaves the     *)
(* socket open and isCompiled, job and the counters as they are; the       *)
(* session goes on serving run_test, run_batch and close.                  *)
(***************************************************************************)
\* the pending job.runTest of instance k throws in this step
RunTestThrows(k) ==
    /\ pc[k] = "runTest"
    /\ pc'[k] = "done"
    /\ LastSent(k).type = "error"

\* a job.runTest of an earlier frame has thrown
RunTestHasThrown ==
    \E j \in Arrived : inbox[j].type = "run_test" /\ pend[j] # 0 /\ HasSent(j, "error")

\* the test_id of the error: the client's, or the next counter value when
\* the frame has none (or has 0)
ErrorTestId(test_id, v, next) ==
    IF Truthy(test_id) THEN v = test_id
    ELSE IF test_id = Undef THEN v = Num(next)
    ELSE v \in {test_id, Num(next)}

\* C19: a throwing job.runTest yields one error with the test_id and
\* changes nothing else; later run_test, run_batch and close are served
C19_RunTestErrorKeepsSession ==
    [][\A k \in Instances :
          /\ RunTestThrows(k)
               => /\ sent' = [sent EXCEPT ![k] = Append(sent[k], LastSent(k))]
                  /\ ErrorTestId(inbox[k].test_id, LastSent(k).data.test_id, testCount + 1)
                  /\ UNCHANGED <<ws, closeCode, closed>>
                  /\ UNCHANGED <<job, box, isCompiled, testCount, totalTime>>
          /\ (Arrives(k) /\ RunTestHasThrown /\ job # 0 /\ isCompiled)
               => /\ inbox'[k].type = "run_test" => pc'[k] = "runTest"
                  /\ (inbox'[k].type = "run_batch" /\ inbox'[k].test_cases.len > 0)
                        => pc'[k] = "runBatched"
                  /\ inbox'[k].type = "close"
                        => (LastSent(k).type = "done" /\ pc'[k] = "cleanup_close")]_vars

\* C19 witness: a run_test whose job.runTest threw was answered by an error
\* on the open socket, and a later run_test got its result
C19_Witness ==
    \E j \in Arrived, k \in Arrived :
        /\ j < k
        /\ inbox[j].type = "run_test"
        /\ pend[j] # 0
        /\ Types(j) = <<"error">>
        /\ inbox[k].type = "run_test"
        /\ Types(k) = <<"result">>
        /\ isCompiled
        /\ ws = "OPEN"

(***************************************************************************)
(* C20.  When job.prime or job.compileOnly throws during `init`, the       *)
(* client gets exactly one `error` and no `compiled`, the Job is cleaned   *)
(* up, and the listener ends with ws.close(4002); the close code of the    *)
(* session is 4002, not 4006 or 4999.                                      *)
(***************************************************************************)
\* the prime or the compileOnly of instance k has thrown
InitFaulted(k) ==
    \E i \in 1..Len(sent[k]) :
        /\ sent[k][i].type = "error"
        /\ sent[k][i].text \in {"prime failed", "compile failed to run"}

\* C20: after the error of a faulted init the instance sends nothing more
\* on the open socket, has sent no `compiled`, has called cleanup, and ends
\* with ws.close(4002), the socket closing with 4002
C20_InitFaultOneError ==
    [][\A k \in Instances :
          InitFaulted(k)
              => /\ ~HasSent(k, "compiled")
                 /\ pend[k] # 0 /\ calls[pend[k]].cleanup >= 1
                 /\ ws = "OPEN" => sent'[k] = sent[k]
                 /\ pc'[k] = "done"
                       => /\ closed'[k] = 4002
                          /\ ws = "OPEN" => closeCode' = 4002
                          /\ closeCode' \notin {4006, 4999}]_vars

(***************************************************************************)
(* C21.  Every code passed to ws.close is one of 4000, 4001, 4002, 4003,   *)
(* 4006, 4999, each for its cause: 4000 by an init that finds a job, 4001  *)
(* by the init timer of a session without a Job, 4003 by a run_test or     *)
(* run_batch that finds no job, 4006 after `compiled` with success false,  *)
(* 4999 after `done`.                                                      *)
(***************************************************************************)
CloseCodes == {4000, 4001, 4002, 4003, 4006, 4999}

\* C21: a step in which the timer (0) or instance i calls ws.close passes
\* one of the six codes, for the cause of that code
C21_CloseCodesAndCauses ==
    [][\A i \in 0..MaxMsgs :
          closed'[i] # closed[i]
              => /\ closed'[i] \in CloseCodes
                 /\ closed'[i] = 4000
                       => (i >= 1 /\ Arrives(i) /\ inbox'[i].type = "init"
                             /\ job # 0 /\ Len(jobs) >= 1)
                 /\ closed'[i] = 4001
                       => (i = 0 /\ TimerFires /\ job = 0 /\ Len(jobs) = 0)
                 /\ closed'[i] = 4003
                       => (i >= 1 /\ Arrives(i) /\ job = 0
                             /\ inbox'[i].type \in {"run_test", "run_batch"})
                 /\ closed'[i] = 4006
                       => (i >= 1 /\ SentCompiled(i, 0))
                 /\ closed'[i] = 4999
                       => (i >= 1 /\ \E n \in 1..Len(sent'[i]) : sent'[i][n].type = "done")]_vars

\* C21 witness: an init closed 4006 after its compile failure and a later
\* init was answered 4000
C21_Witness ==
    \E i \in Arrived, j \in Arrived :
        /\ i < j
        /\ closed[i] = 4006
        /\ SentCompiled(i, 0)
        /\ inbox[j].type = "init"
        /\ closed[j] = 4000


(***************************************************************************)
(* C22: the `compiled` message of a compile with no compile record is      *)
(* exactly {success: true, time: 0, stdout: "", stderr: "", error: null};  *)
(* with a compile record its time, stdout, stderr and error are the        *)
(* record's wall_time, stdout, stderr and message, and 0, "", "" and null  *)
(* where the record has none (a field that is undefined, null or empty).   *)
(***************************************************************************)
Absent(v) == v \in {Undef, Null, Str("")}

C22_CompiledMessageFields ==
    \A k \in Instances : \A n \in 1..Len(sent[k]) :
        sent[k][n].type = "compiled"
            => LET m == sent[k][n]
                   cr == compileResult[k]
               IN  /\ m.v = (IF cr.success THEN 1 ELSE 0)
                   /\ ~cr.record
                        => /\ cr.success => m.v = 1
                           /\ m.data = [stdout |-> Str(""), stderr |-> Str(""),
                                        error |-> Null, test_id |-> Undef,
                                        time |-> Num(0)]
                   /\ cr.record
                        => /\ m.data.time = (IF Absent(cr.wall_time) THEN Num(0)
                                                                     ELSE cr.wall_time)
                           /\ m.data.stdout = (IF Absent(cr.stdout) THEN Str("")
                                                                    ELSE cr.stdout)
                           /\ m.data.stderr = (IF Absent(cr.stderr) THEN Str("")
                                                                    ELSE cr.stderr)
                           /\ m.data.error = (IF Absent(cr.message) THEN Null
                                                                    ELSE cr.message)

C22_Witness ==
    \E k \in Instances : \E n \in 1..Len(sent[k]) :
        /\ sent[k][n].type = "compiled"
        /\ compileResult[k].record
        /\ compileResult[k].wall_time = Num(MaxWall)
        /\ compileResult[k].stdout = Undef
        /\ compileResult[k].message = Str("limit")
        /\ sent[k][n].data.time = Num(MaxWall)
        /\ sent[k][n].data.stdout = Str("")
        /\ sent[k][n].data.error = Str("limit")


(***************************************************************************)
(* C23: a run_batch whose test_cases is missing, not a list or empty is    *)
(* answered with a single error, never invokes job.runBatched, leaves      *)
(* testCount and totalTime unchanged and does not close the session.       *)
(***************************************************************************)
BadTestCases(m) == m.test_cases.t # "array" \/ m.test_cases.len = 0

\* the handler of frame k answers with one error and nothing else
OneErrorOnly(k) ==
    /\ Len(sent'[k]) = 1
    /\ sent'[k][1].type = "error"
    /\ pc'[k] = "done"
    /\ calls' = calls
    /\ testCount' = testCount
    /\ totalTime' = totalTime
    /\ closed'[k] = 0
    /\ ws' = ws
    /\ closeCode' = closeCode

\* C23 as stated: in every session state
C23_BadBatchOneErrorAnyState ==
    [][\A k \in Instances :
          (Arrives(k) /\ inbox'[k].type = "run_batch" /\ BadTestCases(inbox'[k]))
              => OneErrorOnly(k)]_vars

\* C23 where a Job exists: a bad run_batch is answered with one error, does
\* not call the Job, keeps the counters and closes nothing
C23_BadBatchOneError ==
    [][\A k \in Instances :
          (Arrives(k) /\ inbox'[k].type = "run_batch" /\ BadTestCases(inbox'[k])
                /\ job # 0)
              => OneErrorOnly(k)]_vars

C23_Witness ==
    \E k \in Arrived :
        /\ inbox[k].type = "run_batch"
        /\ inbox[k].test_cases.t = "string"
        /\ isCompiled
        /\ Len(sent[k]) = 1
        /\ sent[k][1].text = "test_cases array is required for run_batch"
        /\ closed[k] = 0
        /\ CallsOf("runBatched") = 0


(***************************************************************************)
(* C24: once job.cleanup has been called in the session (by a `close`      *)
(* message, a compile failure, an init fault or the socket close event),   *)
(* no job.prime, job.compileOnly, job.runTest or job.runBatched is invoked *)
(* any more, also not by a message handled while the cleanup is pending.   *)
(***************************************************************************)
JobOperations == {"prime", "compileOnly", "runTest", "runBatched"}

C24_NoOperationAfterCleanup ==
    [][CallsOf("cleanup") >= 1
          => \A method \in JobOperations : CallsOf(method)' = CallsOf(method)]_vars


(***************************************************************************)
(* C25: once a ws.close of the server has closed the socket, no handler    *)
(* sends a further message on it: no step in which a listener instance     *)
(* passes a message to ws.send starts in a state where the socket carries  *)
(* the close code of a handler or of the init timer.                       *)
(***************************************************************************)
C25_NoMessageAfterClose ==
    [][\A k \in Instances : Sends(k) => closeCode = 0]_vars


(***************************************************************************)
(* C26: the init timer never closes an initialized session: when a Job has *)
(* been created before the timer fires, the timer issues no close, at      *)
(* whatever point of prime, compile or the tests it fires; a close 4001 is *)
(* issued only by the timer and only when no Job exists.                   *)
(***************************************************************************)
C26_TimerSparesInitialized ==
    [][/\ (TimerFires /\ Len(jobs) >= 1)
            => (closed' = closed /\ ws' = ws /\ closeCode' = closeCode)
       /\ \A i \in 0..MaxMsgs :
             (closed'[i] = 4001 /\ closed[i] # 4001)
                 => (i = 0 /\ TimerFires /\ Len(jobs) = 0 /\ job = 0)]_vars

\* the timer has fired while job.prime was pending and has closed nothing
C26_Witness ==
    /\ timerFired
    /\ closed[0] = 0
    /\ ws = "OPEN"
    /\ \E k \in Instances : pc[k] = "prime" /\ job = pend[k]


(***************************************************************************)
(* C27: a run_test that ends in an error (job.runTest threw) leaves        *)
(* testCount and totalTime unchanged; so the total_tests of `done` counts  *)
(* only tests that were served with a result (it is their number when no   *)
(* batch was served), and the fallback test_id the error announces,        *)
(* testCount + 1, is the test_id the next successful test is given.        *)
(***************************************************************************)
\* the pending job.runTest of instance k returns in this step
RunTestReturns(k) ==
    /\ pc[k] = "runTest"
    /\ pc'[k] = "done"
    /\ LastSent(k).type = "result"

BatchServed == \E k \in Instances : HasSent(k, "batch_result")

C27_ErrorNotCounted ==
    [][\A k \in Instances :
          /\ RunTestThrows(k)
               => /\ testCount' = testCount
                  /\ totalTime' = totalTime
                  /\ ~Truthy(inbox[k].test_id)
                        => LastSent(k).data.test_id = Num(testCount' + 1)
          /\ (RunTestReturns(k) /\ ~Truthy(inbox[k].test_id))
               => /\ LastSent(k).data.test_id = Num(testCount + 1)
                  /\ testCount' = testCount + 1
          /\ (Arrives(k) /\ inbox'[k].type = "close")
               => /\ LastSent(k).type = "done"
                  /\ LastSent(k).v <= ServedTests
                  /\ ~BatchServed => LastSent(k).v = ServedTests]_vars

\* a run_test failed announcing the fallback id 1, the counters stayed 0,
\* and the next run_test got its result under the same id
C27_Witness ==
    \E i \in Arrived, j \in Arrived :
        /\ i < j
        /\ inbox[i].type = "run_test" /\ inbox[i].test_id = Undef
        /\ Types(i) = <<"error">> /\ sent[i][1].data.test_id = Num(1) /\ pend[i] # 0
        /\ inbox[j].type = "run_test" /\ inbox[j].test_id = Undef
        /\ Types(j) = <<"result">> /\ sent[j][1].data.test_id = Num(1)
        /\ testCount = 1


(***************************************************************************)
(* C28: a frame that is not parseable JSON, or whose handling throws       *)
(* outside the inner try blocks (a throwing job.cleanup during `close` or  *)
(* in the init catch), results in one error followed by ws.close(4002), in *)
(* every session state.                                                    *)
(***************************************************************************)
\* the handling of frame k throws into the outer catch in this step
ReachesOuterCatch(k) ==
    \/ Arrives(k) /\ inbox'[k].type = "#invalid"
    \/ pc[k] \in {"cleanup_close", "cleanup_error"} /\ Sends(k)

ErrorsSent(k) == Cardinality({n \in 1..Len(sent'[k]) : sent'[k][n].type = "error"})

C28_OneErrorThenNotifiedError ==
    [][\A k \in Instances :
          ReachesOuterCatch(k)
              => /\ ErrorsSent(k) = 1
                 /\ LastSent(k).type = "error"
                 /\ closed'[k] = 4002
                 /\ pc'[k] = "done"
                 /\ ws = "OPEN" => closeCode' = 4002]_vars


(***************************************************************************)
(* C29: in a /connect session, once get_job has produced a Job, its        *)
(* job.cleanup is invoked exactly once, and before the listener closes the *)
(* socket; the listener closes with 4999 only if prime and execute both    *)
(* returned, and otherwise sends an error and closes with 4002.            *)
(***************************************************************************)
ConnectAwaits == {"get_job", "prime", "execute", "cleanup_finally", "cleanup_thrown"}

\* the init listener k, which got a Job from get_job, closes in this step
ConnectInitCloses(k) ==
    /\ pc[k] \in {"cleanup_finally", "cleanup_thrown"}
    /\ pc'[k] = "done"

C29_ConnectCleanupOnceThenClose ==
    [][/\ \A j \in 1..Len(jobs') : calls'[j].cleanup <= 1
       /\ \A k \in Instances :
             ConnectInitCloses(k)
                 => /\ calls[pend[k]].cleanup = 1
                    /\ closed'[k] \in {4999, 4002}
                    /\ closed'[k] = 4999
                          => (pc[k] = "cleanup_finally" /\ sent'[k] = sent[k])
                    /\ pc[k] = "cleanup_thrown"
                          => (closed'[k] = 4002 /\ LastSent(k).type = "error")
       /\ (\A k \in Instances : pc'[k] \notin ConnectAwaits)
             => \A j \in 1..Len(jobs') : calls'[j].cleanup = 1]_vars


(***************************************************************************)
(* C30: in a /connect session `data` and `signal` frames are forwarded to  *)
(* the event bus only once an init has set the job: while job is null they *)
(* are answered by ws.close(4003); after that, a `data` whose stream is    *)
(* not stdin is answered by ws.close(4004) and a `signal` outside the      *)
(* allowed set by ws.close(4005); a rejected frame emits nothing on the    *)
(* event bus, and nothing else emits on it.                                *)
(***************************************************************************)
\* frame k is answered by ws.close(code) and nothing else
Rejected(k, code) ==
    /\ closed'[k] = code
    /\ emitted' = emitted
    /\ sent' = sent
    /\ calls' = calls
    /\ pc'[k] = "done"
    /\ ws = "OPEN" => (ws' = "CLOSING" /\ closeCode' = code)

\* frame k is forwarded as the given event and nothing is closed
Forwarded(k, event) ==
    /\ emitted' = [emitted EXCEPT ![k] = event]
    /\ closed' = closed
    /\ ws' = ws
    /\ sent' = sent

C30_ConnectForwarding ==
    [][/\ \A k \in Instances :
             (Arrives(k) /\ inbox'[k].type \in {"data", "signal"})
                 => IF job = 0 THEN Rejected(k, 4003)
                    ELSE IF inbox'[k].type = "data"
                      THEN IF inbox'[k].stream = Str("stdin")
                             THEN Forwarded(k, "stdin")
                             ELSE Rejected(k, 4004)
                    ELSE IF inbox'[k].signal \in {Str("SIGKILL"), Str("SIGINT")}
                             THEN Forwarded(k, "signal")
                             ELSE Rejected(k, 4005)
       /\ \A k \in Instances :
             emitted'[k] # emitted[k]
                 => (Arrives(k) /\ inbox'[k].type \in {"data", "signal"} /\ job # 0)]_vars

\* a stdin frame was forwarded to the running Job, and a later frame for
\* another stream was rejected with 4004
C30_Witness ==
    \E i \in Arrived, j \in Arrived :
        /\ i < j
        /\ inbox[i].type = "data" /\ emitted[i] = "stdin" /\ closed[i] = 0
        /\ inbox[j].type = "data" /\ inbox[j].stream = Str("stdout")
        /\ closed[j] = 4004 /\ emitted[j] = ""
        /\ closeCode = 4004
        /\ job # 0


(***************************************************************************)
(* C31: for POST /execute, job.cleanup is executed before the response is  *)
(* sent; when the cleanup fails the client receives 500 in place of the    *)
(* 200 or 500 chosen in the try/catch; exactly one response is sent per    *)
(* request.                                                                *)
(***************************************************************************)
\* the handler of request k has ended, its cleanup having returned or failed
ExecuteEnded(k) == pc[k] \in {"done", "cleanup_failed"}

C31_CleanupBeforeResponse ==
    \A k \in Arrived :
        /\ Len(sent[k]) <= 1
        /\ ExecuteEnded(k) => Len(sent[k]) = 1
        /\ (pend[k] # 0 /\ Len(sent[k]) >= 1)
              => (calls[pend[k]].cleanup = 1 /\ ExecuteEnded(k))
        /\ pc[k] = "cleanup_failed" => sent[k][1].v = 500

=============================================================================
